---------------------------- MODULE Spec2Model ----------------------------
(***************************************************************************)
(* A state-machine model of the pdfEdit client: App (file selection),      *)
(* PDFUploader (validation), PDFEditor (annotation store, interaction      *)
(* controller, exporter) and SignatureCanvas (capture widget).             *)
(*                                                                         *)
(* Numbers.  JavaScript numbers are modelled as exact rationals            *)
(* [n |-> numerator, d |-> denominator], kept in lowest terms.  Positions  *)
(* and the zoom factor are exact.  Signature dimensions, which the code    *)
(* multiplies by 1.1 and 0.9 without bound on the number of steps, are     *)
(* rounded to 1/100 after every scaling step (operator Fl) so that they    *)
(* stay inside TLC's integers.  The coordinate transform is also modelled *)
(* on its own as the engine computes it, in IEEE 754 doubles (operators    *)
(* DDiv, DMul; variable trip), where a round trip need not be exact.       *)
(*                                                                         *)
(* Outputs.  toast and download hold what the last step emitted (a         *)
(* notification, a file offered to the browser); every step that emits     *)
(* nothing resets them.  event likewise names the button of a modal        *)
(* prompt (Add, Cancel, Save) that the last step pressed, so that a press   *)
(* the code answers by doing nothing is still a step.                      *)
(*                                                                         *)
(* Pointer.  There is one pointer: while a drag session is open the only   *)
(* pointer events are moves and the release, and while a modal overlay     *)
(* (text prompt, signature widget) is open the page under it receives no   *)
(* pointer events.                                                         *)
(***************************************************************************)
EXTENDS Integers, Sequences, FiniteSets, TLC

VARIABLES
    selectedFile,          \* App: the accepted file (its id), NoFile when unset
    uploads,               \* number of files accepted so far (ids are 1..uploads)
    isDragging,            \* PDFUploader: drop-zone highlight
    toast,                 \* notification emitted by the last step
    download,              \* file offered for download by the last step
    event,                 \* the prompt button the last step pressed, if any
    loading,               \* files whose arrayBuffer() promise is pending
    created,               \* object URLs created by URL.createObjectURL
    revoked,               \* object URLs released by URL.revokeObjectURL
    numPages,              \* PDFEditor state, in declaration order
    pageNumber,
    scale,
    pdfBytes,
    pdfUrl,
    effectPdfUrl,          \* the pdfUrl captured by the load effect's cleanup closure
    activeTool,
    showSignatureCanvas,
    textAnnotations,
    draggedAnnotation,
    draggedType,
    signatureAnnotations,
    newTextAnnotation,
    editingText,
    editingPosition,
    isEmpty,               \* SignatureCanvas state
    hasInk,                \* SignatureCanvas: the SignaturePad surface holds a stroke
    clickAt,               \* the pointer position of the click that opened the
                           \* pending placement (recorded for the properties)
    grows,                 \* number of signature enlargements so far (bounded)
    trip                   \* a coordinate on its way from screen space to document
                           \* space and back, as the engine computes it

appVars    == <<selectedFile, uploads, isDragging>>
outVars    == <<toast, download, event>>
urlVars    == <<loading, created, revoked>>
docVars    == <<numPages, pdfBytes, pdfUrl, effectPdfUrl>>
viewVars   == <<pageNumber, scale>>
storeVars  == <<textAnnotations, signatureAnnotations>>
toolVars   == <<activeTool, showSignatureCanvas, newTextAnnotation, editingText,
                editingPosition, isEmpty, hasInk, clickAt>>
dragVars   == <<draggedAnnotation, draggedType>>
editorVars == <<docVars, viewVars, storeVars, toolVars, dragVars, grows>>
programVars == <<appVars, outVars, urlVars, editorVars>>
vars       == <<programVars, trip>>

----------------------------------------------------------------------------
(* Bounds of the model. *)

MaxUploads     == 3    \* files accepted in one run
NumPagesOfFile == 2    \* page count of every uploaded document
MaxAnnotations == 2    \* annotations placed in one editor session, both kinds together
MaxFontSize    == 12   \* the + control of a text annotation is not pressed beyond this
MaxGrows       == 1    \* presses of the + control of a signature in one editor session
ZoomInSteps    == 5    \* zoom levels above 100% that are visited
ZoomOutSteps   == 1    \* zoom levels below 100% that are visited
MaxScreenCoord == 16  \* screen coordinates taken through the round trip

----------------------------------------------------------------------------
(* Rational arithmetic. *)

RECURSIVE GCD(_, _)
GCD(a, b) == IF b = 0 THEN a ELSE GCD(b, a % b)

Abs(i) == IF i < 0 THEN -i ELSE i

\* n/d in lowest terms with a positive denominator (d # 0)
Rat(n, d) ==
    LET g == GCD(Abs(n), Abs(d))
        s == IF d < 0 THEN -1 ELSE 1
    IN  [n |-> s * (n \div g), d |-> s * (d \div g)]

Int2R(i)    == [n |-> i, d |-> 1]
RAdd(a, b)  == Rat(a.n * b.d + b.n * a.d, a.d * b.d)
RSub(a, b)  == Rat(a.n * b.d - b.n * a.d, a.d * b.d)
RMul(a, b)  == Rat(a.n * b.n, a.d * b.d)
RDiv(a, b)  == Rat(a.n * b.d, a.d * b.n)
RLt(a, b)   == a.n * b.d < b.n * a.d
RLe(a, b)   == a.n * b.d <= b.n * a.d
RMax(a, b)  == IF RLt(a, b) THEN b ELSE a
RMin(a, b)  == IF RLt(b, a) THEN b ELSE a

\* q rounded to the nearest multiple of 1/100 (q >= 0)
Fl(q) == Rat((q.n * 100 * 2 + q.d) \div (2 * q.d), 100)


----------------------------------------------------------------------------
(* Numbers as the engine computes them: IEEE 754 binary64, round to nearest, *)
(* ties to even.  A positive double is m * 2^e with 2^52 <= m < 2^53; m and  *)
(* the intermediate integers are held in Limbs limbs of LimbBits bits,       *)
(* least significant first, so that no operation leaves TLC's integers.      *)

\* bits of the significand of a binary64 number
MantissaBits == 53

\* the limbs limb(1), limb(2), ... of a number, least significant first
Tabulate(limb(_)) ==
    <<limb(1), limb(2), limb(3), limb(4), limb(5), limb(6), limb(7), limb(8)>>

NatZero == Tabulate(LAMBDA i : 0)
NatOne  == Tabulate(LAMBDA i : IF i = 1 THEN 1 ELSE 0)

Limbs    == Len(NatZero)
LimbBits == 14
Base     == 2 ^ LimbBits
NatBits  == Limbs * LimbBits

\* the natural number n < 2^31 in limbs
NatOf(n) ==
    Tabulate(LAMBDA i :
        CASE i = 1 -> n % Base
          [] i = 2 -> (n \div Base) % Base
          [] i = 3 -> (n \div Base) \div Base
          [] OTHER -> 0)

BitAt(a, i) ==
    IF i < 0 \/ i >= NatBits THEN 0
    ELSE (a[(i \div LimbBits) + 1] \div (2 ^ (i % LimbBits))) % 2

\* number of bits of a: position of its leading one, plus one
BitLen(a) ==
    LET ones == {i \in 0 .. (NatBits - 1) : BitAt(a, i) = 1}
    IN  IF ones = {} THEN 0 ELSE 1 + (CHOOSE i \in ones : \A j \in ones : j <= i)

\* 2 * a + bit
Twice(a, bit) ==
    Tabulate(LAMBDA i :
        (2 * a[i] + (IF i = 1 THEN bit ELSE a[i - 1] \div (Base \div 2))) % Base)

RECURSIVE CarryInto(_, _, _)
CarryInto(a, b, i) ==
    IF i = 1 THEN 0 ELSE (a[i - 1] + b[i - 1] + CarryInto(a, b, i - 1)) \div Base

NatAdd(a, b) == Tabulate(LAMBDA i : (a[i] + b[i] + CarryInto(a, b, i)) % Base)

RECURSIVE BorrowInto(_, _, _)
BorrowInto(a, b, i) ==
    IF i = 1 THEN 0
    ELSE IF a[i - 1] - b[i - 1] - BorrowInto(a, b, i - 1) < 0 THEN 1 ELSE 0

\* a - b, for a >= b
NatSub(a, b) ==
    Tabulate(LAMBDA i : (a[i] - b[i] - BorrowInto(a, b, i) + Base) % Base)

RECURSIVE GeFrom(_, _, _)
GeFrom(a, b, i) ==
    IF i = 0 THEN TRUE
    ELSE IF a[i] > b[i] THEN TRUE
    ELSE IF a[i] < b[i] THEN FALSE
    ELSE GeFrom(a, b, i - 1)

NatGe(a, b) == GeFrom(a, b, Limbs)

\* a * 2^k and floor(a / 2^k)
Shl(a, k) ==
    Tabulate(LAMBDA i :
        LET lo == (i - 1) * LimbBits - k
        IN  (BitAt(a, lo) + 2 * BitAt(a, lo + 1) + 4 * BitAt(a, lo + 2)
              + 8 * BitAt(a, lo + 3) + 16 * BitAt(a, lo + 4) + 32 * BitAt(a, lo + 5)
              + 64 * BitAt(a, lo + 6) + 128 * BitAt(a, lo + 7)
              + 256 * BitAt(a, lo + 8) + 512 * BitAt(a, lo + 9)
              + 1024 * BitAt(a, lo + 10) + 2048 * BitAt(a, lo + 11)
              + 4096 * BitAt(a, lo + 12) + 8192 * BitAt(a, lo + 13)))
Shr(a, k) == Shl(a, -k)

\* a * b for a, b < 2^56, limb by limb: the sum of the products a[i] * b[j]
\* that fall on limb k, from i down, and the carry into limb k
RECURSIVE ColumnFrom(_, _, _, _)
ColumnFrom(a, b, k, i) ==
    IF i = 0 THEN 0 ELSE a[i] * b[k + 1 - i] + ColumnFrom(a, b, k, i - 1)

Column(a, b, k) == ColumnFrom(a, b, k, k)

RECURSIVE MulCarryInto(_, _, _)
MulCarryInto(a, b, k) ==
    IF k = 1 THEN 0
    ELSE (Column(a, b, k - 1) + MulCarryInto(a, b, k - 1)) \div Base

NatMul(a, b) == Tabulate(LAMBDA k : (Column(a, b, k) + MulCarryInto(a, b, k)) % Base)

\* long division of n by d for n < 2 * d: qr.q is the quotient of n * 2^k by d
\* and qr.r the remainder; zeros are brought down until the quotient has
\* `bits` bits
RECURSIVE DivUntil(_, _, _)
DivUntil(d, bits, qr) ==
    LET shifted == Twice(qr.r, 0)
        fits    == NatGe(shifted, d)
        next    == [q |-> Twice(qr.q, IF fits THEN 1 ELSE 0),
                    r |-> IF fits THEN NatSub(shifted, d) ELSE shifted,
                    k |-> qr.k + 1]
    IN  IF BitLen(qr.q) >= bits THEN qr ELSE DivUntil(d, bits, next)

NatDiv(n, d, bits) ==
    DivUntil(d, bits, IF NatGe(n, d) THEN [q |-> NatOne, r |-> NatSub(n, d), k |-> 0]
                      ELSE [q |-> NatZero, r |-> n, k |-> 0])

\* the double nearest to q * 2^e (+ a little, when sticky), ties to even
Round(q, sticky, e) ==
    LET n == BitLen(q)
    IN  IF n <= MantissaBits
        THEN [m |-> Shl(q, MantissaBits - n), e |-> e - (MantissaBits - n)]
        ELSE LET s      == n - MantissaBits
                 m0     == Shr(q, s)
                 half   == BitAt(q, s - 1) = 1
                 below  == sticky \/ \E i \in 0 .. (s - 2) : BitAt(q, i) = 1
                 up     == half /\ (below \/ BitAt(m0, 0) = 1)
                 m1     == IF up THEN NatAdd(m0, NatOne) ELSE m0
             IN  IF BitLen(m1) > MantissaBits
                 THEN [m |-> Shr(m1, 1), e |-> e + s + 1]
                 ELSE [m |-> m1, e |-> e + s]

\* the double of an integer 0 < n < 2^31
DoubleOf(n) == Round(NatOf(n), FALSE, 0)

\* a / b and a * b on doubles
DDiv(a, b) ==
    LET qr == NatDiv(a.m, b.m, MantissaBits + 2)
    IN  Round(qr.q, qr.r # NatZero, a.e - b.e - qr.k)

DMul(a, b) == Round(NatMul(a.m, b.m), FALSE, a.e + b.e)

----------------------------------------------------------------------------
(* Values. *)

\* null | T is modelled as a sequence: empty for null, <<v>> for a value v
Null    == <<>>
Some(v) == <<v>>
Val(o)  == o[1]

PdfMime    == "application/pdf"
MimeTypes  == {PdfMime, "text/plain"}
\* what a drop or a file-picker change carries: no file, or one file of some type
FileLists  == {<<>>} \cup {<<t>> : t \in MimeTypes}

NoToast        == "none"
ToastInvalid   == "Invalid file type"
ToastUploaded  == "File uploaded"
ToastLoadError == "Failed to load PDF file"
ToastSaved     == "PDF downloaded with your edits"
ToastSaveError == "Failed to save PDF file"

NoEvent == "none"

\* text typed into the prompt, as a sequence of characters
Texts == {<<>>, <<" ">>, <<"a">>}

RECURSIVE TrimStart(_)
TrimStart(s) == IF s # <<>> /\ Head(s) = " " THEN TrimStart(Tail(s)) ELSE s

RECURSIVE TrimEnd(_)
TrimEnd(s) ==
    IF s # <<>> /\ s[Len(s)] = " " THEN TrimEnd(SubSeq(s, 1, Len(s) - 1)) ELSE s

\* mutant: the text is tested without trimming
TrimNothing(s) == s

\* String.prototype.trim
Trim(s) == TrimEnd(TrimStart(s))

\* JavaScript truthiness of a string
Truthy(s) == s # <<>>

----------------------------------------------------------------------------
(* PDFEditor: the state a freshly mounted editor starts in. *)

DefaultFontSize == 11
MinFontSize     == 8
SigWidth        == 200
SigHeight       == 100
MinSigWidth     == 50
MinSigHeight    == 25
ExportTextSize  == 11
FallbackX       == 300
FallbackY       == 400

MinScale  == Rat(1, 2)
MaxScale  == Rat(2, 1)
ScaleStep == Rat(1, 10)
GrowBy    == Rat(11, 10)
ShrinkBy  == Rat(9, 10)

EditorInitial ==
    /\ numPages = Null
    /\ pageNumber = 1
    /\ scale = Int2R(1)
    /\ pdfBytes = Null
    /\ pdfUrl = Null
    /\ effectPdfUrl = Null
    /\ activeTool = "none"
    /\ showSignatureCanvas = FALSE
    /\ textAnnotations = <<>>
    /\ draggedAnnotation = Null
    /\ draggedType = "text"
    /\ signatureAnnotations = <<>>
    /\ newTextAnnotation = <<>>
    /\ editingText = FALSE
    /\ editingPosition = Null
    /\ isEmpty = TRUE
    /\ hasInk = FALSE
    /\ clickAt = Null
    /\ grows = 0

\* the same, as the next state: a PDFEditor is mounted anew or destroyed
EditorReset ==
    /\ numPages' = Null
    /\ pageNumber' = 1
    /\ scale' = Int2R(1)
    /\ pdfBytes' = Null
    /\ pdfUrl' = Null
    /\ activeTool' = "none"
    /\ showSignatureCanvas' = FALSE
    /\ textAnnotations' = <<>>
    /\ draggedAnnotation' = Null
    /\ draggedType' = "text"
    /\ signatureAnnotations' = <<>>
    /\ newTextAnnotation' = <<>>
    /\ editingText' = FALSE
    /\ editingPosition' = Null
    /\ isEmpty' = TRUE
    /\ hasInk' = FALSE
    /\ clickAt' = Null
    /\ grows' = 0

\* the application as it starts
ProgramInit ==
    /\ selectedFile = Null
    /\ uploads = 0
    /\ isDragging = FALSE
    /\ toast = NoToast
    /\ download = Null
    /\ event = NoEvent
    /\ loading = {}
    /\ created = {}
    /\ revoked = {}
    /\ EditorInitial

\* no coordinate under way
NoTrip == [stage |-> "idle", sx |-> 1, z |-> DoubleOf(1), v |-> DoubleOf(1)]

Init == ProgramInit /\ trip = NoTrip

\* a step that shows no notification and offers no file
Quiet == toast' = NoToast /\ download' = Null /\ event' = NoEvent

\* a step that presses a button of a modal prompt, and emits nothing
Pressed(button) == toast' = NoToast /\ download' = Null /\ event' = button

EditorMounted   == selectedFile # Null
\* the text prompt renders when editingText && editingPosition
TextPromptOpen  == editingText /\ editingPosition # Null
\* either modal overlay covers the whole viewport
ModalOpen       == TextPromptOpen \/ showSignatureCanvas
\* the pointer is free: no button held on an annotation, no overlay in the way
PointerFree     == draggedAnnotation = Null /\ ~ModalOpen
\* <Document>/<Page> are rendered, i.e. the page renderer is invoked
RendererInvoked == EditorMounted /\ pdfUrl # Null

----------------------------------------------------------------------------
(* App and PDFUploader. *)

HandleDragOver ==
    /\ ~EditorMounted
    /\ isDragging' = TRUE
    /\ Quiet
    /\ UNCHANGED <<trip, selectedFile, uploads, urlVars, editorVars>>

HandleDragLeave ==
    /\ ~EditorMounted
    /\ isDragging' = FALSE
    /\ Quiet
    /\ UNCHANGED <<trip, selectedFile, uploads, urlVars, editorVars>>

\* mutant: the MIME type is not checked
AcceptedAny(type) == TRUE

\* the check of validateAndUploadFile
Accepted(type) == type = PdfMime

\* validateAndUploadFile, with App.handleFileUpload and the mount of PDFEditor
\* (initial state, first run of the load effect) that it causes
ValidateAndUploadFile(type) ==
    IF ~Accepted(type)
    THEN /\ toast' = ToastInvalid
         /\ download' = Null
         /\ event' = NoEvent
         /\ UNCHANGED <<trip, selectedFile, uploads, urlVars, editorVars>>
    ELSE /\ uploads < MaxUploads
         /\ uploads' = uploads + 1
         /\ selectedFile' = Some(uploads + 1)
         /\ EditorReset
         \* the effect runs after the first render; its cleanup closes over that
         \* render's pdfUrl, and [file, toast] never change while mounted
         /\ effectPdfUrl' = pdfUrl'
         /\ loading' = loading \cup {uploads + 1}
         /\ toast' = ToastUploaded
         /\ download' = Null
         /\ event' = NoEvent
         /\ UNCHANGED <<trip, created, revoked>>

HandleDrop(files) ==
    /\ ~EditorMounted
    /\ IF Len(files) > 0
       THEN /\ ValidateAndUploadFile(files[1])
            /\ isDragging' = FALSE
       ELSE /\ isDragging' = FALSE
            /\ Quiet
            /\ UNCHANGED <<trip, selectedFile, uploads, urlVars, editorVars>>

HandleFileInputChange(files) ==
    /\ ~EditorMounted
    /\ IF Len(files) > 0
       THEN /\ ValidateAndUploadFile(files[1])
            /\ isDragging' = IF Accepted(files[1]) THEN FALSE ELSE isDragging
       ELSE /\ Quiet
            /\ UNCHANGED <<trip, appVars, urlVars, editorVars>>

\* the cleanup of the load effect, run when the editor unmounts
LoadEffectCleanup ==
    revoked' = IF effectPdfUrl # Null THEN revoked \cup {Val(effectPdfUrl)} ELSE revoked

\* "Upload New File": setSelectedFile(null) unmounts the editor
UploadNewFile ==
    /\ EditorMounted
    /\ PointerFree
    /\ selectedFile' = Null
    /\ LoadEffectCleanup
    /\ EditorReset
    /\ effectPdfUrl' = Null
    /\ Quiet
    /\ UNCHANGED <<trip, uploads, isDragging, loading, created>>

----------------------------------------------------------------------------
(* PDFEditor: loading the file. *)

\* file.arrayBuffer() resolves: the blob URL is created; the state setters
\* act only on the editor that started the load, if it is still mounted
LoadPdfResolve(f) ==
    /\ f \in loading
    /\ loading' = loading \ {f}
    /\ created' = created \cup {f}
    /\ IF selectedFile = Some(f)
       THEN pdfBytes' = Some(f) /\ pdfUrl' = Some(f)
       ELSE UNCHANGED <<pdfBytes, pdfUrl>>
    /\ Quiet
    /\ UNCHANGED <<trip, appVars, revoked, numPages, effectPdfUrl, viewVars, storeVars,
                   toolVars, dragVars, grows>>

\* file.arrayBuffer() rejects
LoadPdfReject(f) ==
    /\ f \in loading
    /\ loading' = loading \ {f}
    /\ toast' = ToastLoadError
    /\ download' = Null
    /\ event' = NoEvent
    /\ UNCHANGED <<trip, appVars, created, revoked, editorVars>>

OnDocumentLoadSuccess ==
    /\ RendererInvoked
    /\ numPages = Null
    /\ numPages' = Some(NumPagesOfFile)
    /\ Quiet
    /\ UNCHANGED <<trip, appVars, urlVars, pdfBytes, pdfUrl, effectPdfUrl, viewVars,
                   storeVars, toolVars, dragVars, grows>>

----------------------------------------------------------------------------
(* Layout: what getBoundingClientRect reports. *)

\* "border" (1px) and "p-4" (16px) of the document container
PageInset == 17

\* pointer positions (clientX, clientY) of clicks on the page and of drag moves
ClickPoints == {[x |-> 117, y |-> 217]}
MovePoints  == {[x |-> 300, y |-> 400]}

\* natural size of page p of an uploaded document, in points
PageSize(p) == [width |-> 612, height |-> 792 + 50 * (p - 1)]

\* the container <div ref={documentRef}>
ContainerRect == [left |-> Int2R(0), top |-> Int2R(0)]

\* the page wrapper <div onClick={handlePageClick}>, sized by <Page scale={scale}>
PageRect ==
    [left   |-> RAdd(ContainerRect.left, Int2R(PageInset)),
     top    |-> RAdd(ContainerRect.top, Int2R(PageInset)),
     width  |-> RMul(Int2R(PageSize(pageNumber).width), scale),
     height |-> RMul(Int2R(PageSize(pageNumber).height), scale)]

----------------------------------------------------------------------------
(* Coordinate transform. *)

\* screen to document space: (e.clientX - rect.left) / scale
ToDocumentSpace(client, origin, z) == RDiv(RSub(Int2R(client), origin), z)

\* mutant: the rendering ignores the zoom
ToScreenSpaceUnscaled(doc, z) == doc

\* document to screen space: annotation.x * scale
ToScreenSpace(doc, z) == RMul(doc, z)

\* the same two conversions as the engine computes them, in doubles
ToDocumentSpaceDouble(screen, z) == DDiv(screen, z)

\* mutant: the rendering ignores the zoom, in doubles
ToScreenSpaceDoubleUnscaled(doc, z) == doc

ToScreenSpaceDouble(doc, z) == DMul(doc, z)

\* document to PDF page space, text anchor: height - annotation.y
ToPdfSpaceText(y, pageHeight) == RSub(Int2R(pageHeight), y)

\* mutant: the image is anchored like text, without its height
ToPdfSpaceImageNoHeight(y, h, pageHeight) == RSub(Int2R(pageHeight), y)

\* document to PDF page space, image anchor: height - annotation.y - annotation.height
ToPdfSpaceImage(y, h, pageHeight) == RSub(RSub(Int2R(pageHeight), y), h)

----------------------------------------------------------------------------
(* PDFEditor: toolbar. *)

ZoomOut ==
    /\ EditorMounted /\ PointerFree
    /\ ~RLe(scale, MinScale)                                 \* disabled={scale <= 0.5}
    /\ RLt(Rat(10 - ZoomOutSteps, 10), scale)                \* bound
    /\ scale' = RMax(MinScale, RSub(scale, ScaleStep))
    /\ Quiet
    /\ UNCHANGED <<trip, appVars, urlVars, docVars, pageNumber, storeVars, toolVars,
                   dragVars, grows>>

ZoomIn ==
    /\ EditorMounted /\ PointerFree
    /\ ~RLe(MaxScale, scale)                                 \* disabled={scale >= 2.0}
    /\ RLt(scale, Rat(10 + ZoomInSteps, 10))                 \* bound
    /\ scale' = RMin(MaxScale, RAdd(scale, ScaleStep))
    /\ Quiet
    /\ UNCHANGED <<trip, appVars, urlVars, docVars, pageNumber, storeVars, toolVars,
                   dragVars, grows>>

Min(a, b) == IF a < b THEN a ELSE b
Max(a, b) == IF a > b THEN a ELSE b

PreviousPage ==
    /\ EditorMounted /\ PointerFree
    /\ ~(pageNumber <= 1)
    /\ pageNumber' = Max(1, pageNumber - 1)
    /\ Quiet
    /\ UNCHANGED <<trip, appVars, urlVars, docVars, scale, storeVars, toolVars,
                   dragVars, grows>>

NextPage ==
    /\ EditorMounted /\ PointerFree
    /\ ~(numPages = Null \/ pageNumber >= Val(numPages))
    /\ pageNumber' = Min(Val(numPages), pageNumber + 1)
    /\ Quiet
    /\ UNCHANGED <<trip, appVars, urlVars, docVars, scale, storeVars, toolVars,
                   dragVars, grows>>

\* "Add Text" / "Add Signature"
SetActiveTool(t) ==
    /\ EditorMounted /\ PointerFree
    /\ Len(textAnnotations) + Len(signatureAnnotations) < MaxAnnotations   \* bound
    /\ activeTool' = t
    /\ Quiet
    /\ UNCHANGED <<trip, appVars, urlVars, docVars, viewVars, storeVars,
                   showSignatureCanvas, newTextAnnotation, editingText,
                   editingPosition, isEmpty, hasInk, clickAt, dragVars, grows>>

----------------------------------------------------------------------------
(* PDFEditor: placing annotations. *)

\* react-pdf renders the children of <Document> once the document is loaded
PageShown == RendererInvoked /\ numPages # Null

HandlePageClick(e) ==
    /\ PageShown /\ PointerFree
    /\ Quiet
    /\ IF activeTool = "none"
       THEN UNCHANGED <<showSignatureCanvas, editingText, editingPosition, isEmpty, hasInk,
                        clickAt>>
       ELSE LET rect == PageRect
                x    == ToDocumentSpace(e.x, rect.left, scale)
                y    == ToDocumentSpace(e.y, rect.top, scale)
            IN  /\ clickAt' = Some(e)
                /\ IF activeTool = "text"
                   THEN /\ editingPosition' = Some([x |-> x, y |-> y])
                        /\ editingText' = TRUE
                        /\ UNCHANGED <<showSignatureCanvas, isEmpty, hasInk>>
                   ELSE /\ editingPosition' =
                              Some([x |-> RDiv(RDiv(rect.width, Int2R(2)), scale),
                                    y |-> RDiv(RDiv(rect.height, Int2R(2)), scale)])
                        /\ showSignatureCanvas' = TRUE
                        /\ isEmpty' = TRUE          \* SignatureCanvas mounts
                        /\ hasInk' = FALSE         \* with a blank SignaturePad
                        /\ UNCHANGED editingText
    /\ UNCHANGED <<trip, appVars, urlVars, docVars, viewVars, storeVars, activeTool,
                   newTextAnnotation, dragVars, grows>>

\* onChange of the prompt's textarea
OnTextChange(v) ==
    /\ TextPromptOpen
    /\ newTextAnnotation' = v
    /\ Quiet
    /\ UNCHANGED <<trip, appVars, urlVars, docVars, viewVars, storeVars, activeTool,
                   showSignatureCanvas, editingText, editingPosition, isEmpty, hasInk,
                   clickAt, dragVars, grows>>

HandleTextSubmit ==
    /\ TextPromptOpen
    /\ Pressed("Add")
    /\ IF Truthy(Trim(newTextAnnotation)) /\ editingPosition # Null
       THEN /\ textAnnotations' = Append(textAnnotations,
                    [x          |-> Val(editingPosition).x,
                     y          |-> Val(editingPosition).y,
                     text       |-> newTextAnnotation,
                     pageNumber |-> pageNumber,
                     fontSize   |-> DefaultFontSize])
            /\ newTextAnnotation' = <<>>
            /\ editingText' = FALSE
            /\ editingPosition' = Null
            /\ activeTool' = "none"
            /\ clickAt' = Null
       ELSE UNCHANGED <<textAnnotations, newTextAnnotation, editingText,
                        editingPosition, activeTool, clickAt>>
    /\ UNCHANGED <<trip, appVars, urlVars, docVars, viewVars, signatureAnnotations,
                   showSignatureCanvas, isEmpty, hasInk, dragVars, grows>>

\* the prompt's Cancel button
TextCancel ==
    /\ TextPromptOpen
    /\ editingText' = FALSE
    /\ newTextAnnotation' = <<>>
    /\ activeTool' = "none"
    /\ clickAt' = Null
    /\ Pressed("Cancel")
    /\ UNCHANGED <<trip, appVars, urlVars, docVars, viewVars, storeVars,
                   showSignatureCanvas, editingPosition, isEmpty, hasInk, dragVars, grows>>

\* SignaturePad onBegin: a stroke starts
OnBegin ==
    /\ showSignatureCanvas
    /\ isEmpty' = FALSE
    /\ hasInk' = TRUE                                       \* the stroke is drawn
    /\ Quiet
    /\ UNCHANGED <<trip, appVars, urlVars, docVars, viewVars, storeVars, activeTool,
                   showSignatureCanvas, newTextAnnotation, editingText,
                   editingPosition, clickAt, dragVars, grows>>

HandleClear ==
    /\ showSignatureCanvas
    /\ hasInk' = FALSE                                      \* sigCanvas.current?.clear()
    /\ isEmpty' = TRUE
    /\ Quiet
    /\ UNCHANGED <<trip, appVars, urlVars, docVars, viewVars, storeVars, activeTool,
                   showSignatureCanvas, newTextAnnotation, editingText,
                   editingPosition, clickAt, dragVars, grows>>

\* the position handleSignatureAdd falls back to
DefaultPosition ==
    IF PageShown
    THEN [x |-> RDiv(RDiv(PageRect.width, Int2R(2)), scale),
          y |-> RDiv(RDiv(PageRect.height, Int2R(2)), scale)]
    ELSE [x |-> Int2R(FallbackX), y |-> Int2R(FallbackY)]

HandleSignatureAdd(signatureDataUrl) ==
    LET position == IF editingPosition # Null THEN Val(editingPosition)
                    ELSE DefaultPosition
    IN  /\ signatureAnnotations' = Append(signatureAnnotations,
                [x          |-> position.x,
                 y          |-> position.y,
                 dataUrl    |-> signatureDataUrl,
                 width      |-> Int2R(SigWidth),
                 height     |-> Int2R(SigHeight),
                 pageNumber |-> pageNumber])
        /\ showSignatureCanvas' = FALSE
        /\ editingPosition' = Null
        /\ activeTool' = "none"
        /\ clickAt' = Null

\* mutant: handleSave without its emptiness guard
HandleSaveUnguarded ==
    /\ showSignatureCanvas
    /\ Pressed("Save")
    /\ HandleSignatureAdd("png")
    /\ UNCHANGED <<trip, appVars, urlVars, docVars, viewVars, textAnnotations,
                   newTextAnnotation, editingText, isEmpty, hasInk, dragVars, grows>>

\* SignatureCanvas.handleSave, calling onSave = handleSignatureAdd
HandleSave ==
    /\ showSignatureCanvas
    /\ Pressed("Save")
    /\ IF ~isEmpty
       THEN HandleSignatureAdd("png")
       ELSE UNCHANGED <<signatureAnnotations, showSignatureCanvas, editingPosition,
                        activeTool, clickAt>>
    /\ UNCHANGED <<trip, appVars, urlVars, docVars, viewVars, textAnnotations,
                   newTextAnnotation, editingText, isEmpty, hasInk, dragVars, grows>>

HandleSignatureCancel ==
    /\ showSignatureCanvas
    /\ showSignatureCanvas' = FALSE
    /\ activeTool' = "none"
    /\ clickAt' = Null
    /\ Pressed("Cancel")
    /\ UNCHANGED <<trip, appVars, urlVars, docVars, viewVars, storeVars,
                   newTextAnnotation, editingText, editingPosition, isEmpty, hasInk,
                   dragVars, grows>>

----------------------------------------------------------------------------
(* PDFEditor: what is rendered on the displayed page. *)

\* annotations.filter(annotation => annotation.pageNumber === pageNumber)
OnPage(annotations) == SelectSeq(annotations, LAMBDA a : a.pageNumber = pageNumber)

\* the indices .map((annotation, index) => ...) hands to the rendered elements
RenderedIndices(annotations) == 0 .. (Len(OnPage(annotations)) - 1)

\* the element rendered with the given index
Rendered(annotations, index) == OnPage(annotations)[index + 1]

\* style.left / style.top of a rendered annotation
ScreenPosition(a) == [left |-> ToScreenSpace(a.x, scale), top |-> ToScreenSpace(a.y, scale)]

\* prev.map((a, i) => i === index ? f(a) : a)
MapAt(annotations, index, f(_)) ==
    [i \in 1 .. Len(annotations) |->
        IF i - 1 = index THEN f(annotations[i]) ELSE annotations[i]]

----------------------------------------------------------------------------
(* PDFEditor: dragging. *)

HandleAnnotationMouseDown(index, type) ==
    /\ PageShown /\ PointerFree
    /\ index \in RenderedIndices(IF type = "text" THEN textAnnotations
                                 ELSE signatureAnnotations)
    /\ draggedAnnotation' = Some(index)
    /\ draggedType' = type
    /\ Quiet
    /\ UNCHANGED <<trip, appVars, urlVars, docVars, viewVars, storeVars, toolVars, grows>>

\* the x and y a pointer move gives the dragged annotation
MovedTo(e, a) ==
    [a EXCEPT !.x = ToDocumentSpace(e.x, ContainerRect.left, scale),
              !.y = ToDocumentSpace(e.y, ContainerRect.top, scale)]

\* the document's mousemove listener, attached while a drag session is open
HandleMouseMove(e) ==
    /\ draggedAnnotation # Null
    /\ IF draggedType = "text"
       THEN /\ textAnnotations' =
                  MapAt(textAnnotations, Val(draggedAnnotation), LAMBDA a : MovedTo(e, a))
            /\ UNCHANGED signatureAnnotations
       ELSE /\ signatureAnnotations' =
                  MapAt(signatureAnnotations, Val(draggedAnnotation),
                        LAMBDA a : MovedTo(e, a))
            /\ UNCHANGED textAnnotations
    /\ Quiet
    /\ UNCHANGED <<trip, appVars, urlVars, docVars, viewVars, toolVars, dragVars, grows>>

HandleMouseUp ==
    /\ draggedAnnotation # Null
    /\ draggedAnnotation' = Null
    /\ Quiet
    /\ UNCHANGED <<trip, appVars, urlVars, docVars, viewVars, storeVars, toolVars,
                   draggedType, grows>>

----------------------------------------------------------------------------
(* PDFEditor: resizing. *)

\* a.fontSize || 11
FontSizeOf(a) == IF a.fontSize = 0 THEN DefaultFontSize ELSE a.fontSize

FontPlus(a)  == [a EXCEPT !.fontSize = FontSizeOf(a) + 1]
FontMinus(a) == [a EXCEPT !.fontSize = Max(MinFontSize, FontSizeOf(a) - 1)]

SigPlus(a) ==
    [a EXCEPT !.width  = Fl(RMul(a.width, GrowBy)),
              !.height = Fl(RMul(a.height, GrowBy))]
\* mutant: shrinking without the floors
SigMinusNoFloor(a) ==
    [a EXCEPT !.width  = Fl(RMul(a.width, ShrinkBy)),
              !.height = Fl(RMul(a.height, ShrinkBy))]

SigMinus(a) ==
    [a EXCEPT !.width  = RMax(Int2R(MinSigWidth), Fl(RMul(a.width, ShrinkBy))),
              !.height = RMax(Int2R(MinSigHeight), Fl(RMul(a.height, ShrinkBy)))]

\* the + button of the text annotation rendered with this index
FontSizeUp(index) ==
    /\ PageShown /\ PointerFree
    /\ index \in RenderedIndices(textAnnotations)
    /\ \A i \in 1 .. Len(textAnnotations) :                          \* bound
            i - 1 = index => FontSizeOf(textAnnotations[i]) < MaxFontSize
    /\ textAnnotations' = MapAt(textAnnotations, index, FontPlus)
    /\ Quiet
    /\ UNCHANGED <<trip, appVars, urlVars, docVars, viewVars, signatureAnnotations,
                   toolVars, dragVars, grows>>

\* the - button of the text annotation rendered with this index
FontSizeDown(index) ==
    /\ PageShown /\ PointerFree
    /\ index \in RenderedIndices(textAnnotations)
    /\ textAnnotations' = MapAt(textAnnotations, index, FontMinus)
    /\ Quiet
    /\ UNCHANGED <<trip, appVars, urlVars, docVars, viewVars, signatureAnnotations,
                   toolVars, dragVars, grows>>

\* the + button of the signature rendered with this index
SignatureGrow(index) ==
    /\ PageShown /\ PointerFree
    /\ index \in RenderedIndices(signatureAnnotations)
    /\ grows < MaxGrows                                               \* bound
    /\ grows' = grows + 1
    /\ signatureAnnotations' = MapAt(signatureAnnotations, index, SigPlus)
    /\ Quiet
    /\ UNCHANGED <<trip, appVars, urlVars, docVars, viewVars, textAnnotations,
                   toolVars, dragVars>>

\* the - button of the signature rendered with this index
SignatureShrink(index) ==
    /\ PageShown /\ PointerFree
    /\ index \in RenderedIndices(signatureAnnotations)
    /\ signatureAnnotations' = MapAt(signatureAnnotations, index, SigMinus)
    /\ Quiet
    /\ UNCHANGED <<trip, appVars, urlVars, docVars, viewVars, textAnnotations,
                   toolVars, dragVars, grows>>

----------------------------------------------------------------------------
(* PDFEditor: export. *)

\* the size handed to page.drawText
DrawTextSize(annotation) == ExportTextSize

\* page.drawText(annotation.text, {...}) on pages[annotation.pageNumber - 1]
DrawText(annotation) ==
    LET height == PageSize(annotation.pageNumber).height
    IN  [op      |-> "drawText",
         page    |-> annotation.pageNumber,
         text    |-> annotation.text,
         x       |-> annotation.x,
         y       |-> ToPdfSpaceText(annotation.y, height),
         size    |-> DrawTextSize(annotation)]

\* page.drawImage(img, {...}) on pages[annotation.pageNumber - 1]
DrawImage(annotation) ==
    LET height == PageSize(annotation.pageNumber).height
    IN  [op      |-> "drawImage",
         page    |-> annotation.pageNumber,
         image   |-> annotation.dataUrl,
         x       |-> annotation.x,
         y       |-> ToPdfSpaceImage(annotation.y, annotation.height, height),
         width   |-> annotation.width,
         height  |-> annotation.height]

\* the draw instructions of a whole export: text annotations, then signatures
DrawAll ==
    [i \in 1 .. Len(textAnnotations) |-> DrawText(textAnnotations[i])]
    \o [i \in 1 .. Len(signatureAnnotations) |-> DrawImage(signatureAnnotations[i])]

\* the awaited library calls of one export, any of which may throw:
\* 0 is PDFDocument.load, 1 .. n the drawing of the n annotations (embedFont,
\* drawText, embedPng, drawImage), n + 1 is pdfDoc.save
ExportSteps == 0 .. (Len(textAnnotations) + Len(signatureAnnotations) + 1)

\* what handleDownload offers the browser when nothing throws
ExportOffer == Some([name |-> <<"edited_", Val(selectedFile)>>, content |-> DrawAll])

\* mutant: the download link is clicked whether or not a step threw
HandleDownloadAlwaysOffers(failedAt) ==
    /\ EditorMounted /\ PointerFree
    /\ event' = NoEvent
    /\ IF pdfBytes = Null
       THEN toast' = NoToast /\ download' = Null
       ELSE /\ download' = ExportOffer
            /\ IF failedAt = Null
               THEN toast' = ToastSaved
               ELSE Val(failedAt) \in ExportSteps /\ toast' = ToastSaveError
    /\ UNCHANGED <<trip, appVars, urlVars, editorVars>>

\* handleDownload; failedAt is the step that throws, or Null when none does.
\* The handler reads the annotations of the render it was created in and writes
\* no editor state, so its awaits are folded into one step.
HandleDownload(failedAt) ==
    /\ EditorMounted /\ PointerFree
    /\ event' = NoEvent
    /\ IF pdfBytes = Null
       THEN toast' = NoToast /\ download' = Null
       ELSE IF failedAt = Null
            THEN /\ download' = ExportOffer
                 /\ toast' = ToastSaved
            ELSE /\ Val(failedAt) \in ExportSteps
                 /\ download' = Null
                 /\ toast' = ToastSaveError
    /\ UNCHANGED <<trip, appVars, urlVars, editorVars>>

----------------------------------------------------------------------------
(* Specifications. *)

Tools    == {"text", "signature"}
Kinds    == {"text", "signature"}
Indices  == 0 .. (MaxAnnotations - 1)
FileIds  == 1 .. MaxUploads
Failures == {Null} \cup {Some(k) : k \in 0 .. (MaxAnnotations + 1)}

\* a file is offered and, if accepted, loaded and parsed
Open ==
    \/ \E files \in FileLists : HandleFileInputChange(files)
    \/ \E f \in FileIds : LoadPdfResolve(f)
    \/ OnDocumentLoadSuccess

\* the rest of the life of files and editors
Lifecycle ==
    \/ HandleDragOver
    \/ HandleDragLeave
    \/ \E files \in FileLists : HandleDrop(files)
    \/ \E f \in FileIds : LoadPdfReject(f)
    \/ UploadNewFile

Turn ==
    \/ PreviousPage
    \/ NextPage

Zoom ==
    \/ ZoomOut
    \/ ZoomIn

Place ==
    \/ \E t \in Tools : SetActiveTool(t)
    \/ \E e \in ClickPoints : HandlePageClick(e)
    \/ \E v \in Texts : OnTextChange(v)
    \/ HandleTextSubmit
    \/ TextCancel
    \/ OnBegin
    \/ HandleClear
    \/ HandleSave
    \/ HandleSignatureCancel

Drag ==
    \/ \E index \in Indices, type \in Kinds : HandleAnnotationMouseDown(index, type)
    \/ \E e \in MovePoints : HandleMouseMove(e)
    \/ HandleMouseUp

Resize ==
    \/ \E index \in Indices : FontSizeUp(index)
    \/ \E index \in Indices : FontSizeDown(index)
    \/ \E index \in Indices : SignatureGrow(index)
    \/ \E index \in Indices : SignatureShrink(index)

Export == \E failedAt \in Failures : HandleDownload(failedAt)

\* the whole program
Next == Open \/ Lifecycle \/ Turn \/ Zoom \/ Place \/ Drag \/ Resize \/ Export
Spec == Init /\ [][Next]_vars

\* files and editors coming and going, nothing edited
NextLifecycle == Open \/ Lifecycle
SpecLifecycle == Init /\ [][NextLifecycle]_vars

\* one editor session of placing annotations on the pages
NextPlace == Open \/ Turn \/ Place
SpecPlace == Init /\ [][NextPlace]_vars

\* one editor session of placing annotations and zooming
NextZoom == Open \/ Zoom \/ Place
SpecZoom == Init /\ [][NextZoom]_vars

\* one editor session of placing and moving annotations
NextMove == Open \/ Turn \/ Zoom \/ Place \/ Drag
SpecMove == Init /\ [][NextMove]_vars

\* one editor session of placing and resizing annotations
NextResize == Open \/ Place \/ Resize
SpecResize == Init /\ [][NextResize]_vars

\* one editor session of placing and exporting annotations
NextExport == Open \/ Turn \/ Place \/ Export
SpecExport == Init /\ [][NextExport]_vars

\* one editor session of placing, resizing and exporting annotations
NextSize == Open \/ Turn \/ Place \/ Resize \/ Export
SpecSize == Init /\ [][NextSize]_vars

----------------------------------------------------------------------------
(* The coordinate transform on its own: a screen coordinate is taken to      *)
(* document space and back at one zoom factor.                               *)

\* the zoom factors of the supported range that are whole tenths: 0.5 .. 2.0
ZoomTenths == {k \in 1 .. 20 : RLe(MinScale, Rat(k, 10)) /\ RLe(Rat(k, 10), MaxScale)}

\* the double written k/10
ZoomDouble(k) == DDiv(DoubleOf(k), DoubleOf(10))

\* screen coordinates (whole pixels from the page origin)
ScreenCoords == 1 .. MaxScreenCoord

\* a coordinate s about to make the round trip at the zoom factor z
TripOf(s, z) == [stage |-> "screen", sx |-> s, z |-> z, v |-> DoubleOf(s)]

\* (e.clientX - rect.left) / scale
TripToDocument ==
    /\ trip.stage = "screen"
    /\ trip' = [trip EXCEPT !.stage = "document",
                            !.v = ToDocumentSpaceDouble(trip.v, trip.z)]
    /\ UNCHANGED programVars

\* annotation.x * scale
TripToScreen ==
    /\ trip.stage = "document"
    /\ trip' = [trip EXCEPT !.stage = "back",
                            !.v = ToScreenSpaceDouble(trip.v, trip.z)]
    /\ UNCHANGED programVars

InitRoundTrip ==
    /\ ProgramInit
    /\ \E s \in ScreenCoords, k \in ZoomTenths : trip = TripOf(s, ZoomDouble(k))
NextRoundTrip == TripToDocument \/ TripToScreen
SpecRoundTrip == InitRoundTrip /\ [][NextRoundTrip]_vars

----------------------------------------------------------------------------
(* Properties. *)

\* the place in the whole collection of the annotation rendered with this index
\* on the displayed page
FullIndex(annotations, index) ==
    CHOOSE i \in 1 .. Len(annotations) :
        /\ annotations[i].pageNumber = pageNumber
        /\ Cardinality({j \in 1 .. (i - 1) : annotations[j].pageNumber = pageNumber})
              = index

\* the annotation the open drag session started on
Grabbed ==
    IF draggedType = "text"
    THEN FullIndex(textAnnotations, Val(draggedAnnotation))
    ELSE FullIndex(signatureAnnotations, Val(draggedAnnotation))

\* annotation a with its position set to the pointer position over the zoom
AtPointer(a, e) ==
    [a EXCEPT !.x = RDiv(Int2R(e.x), scale), !.y = RDiv(Int2R(e.y), scale)]

(* C1.  Drag determinism: every pointer move of a drag session sets the      *)
(* position of exactly the annotation the pointer went down on to the        *)
(* pointer position divided by the zoom, and changes no other text or        *)
(* signature annotation; the release changes none.  (Stated of the code,     *)
(* this fails: the session keeps the index among the displayed page's        *)
(* annotations and the move applies it to the whole collection.)             *)
C1_DragMovesTheGrabbedAnnotation ==
    [][/\ \A e \in MovePoints :
            HandleMouseMove(e) =>
                IF draggedType = "text"
                THEN /\ textAnnotations' =
                            [textAnnotations EXCEPT ![Grabbed] = AtPointer(@, e)]
                     /\ signatureAnnotations' = signatureAnnotations
                ELSE /\ signatureAnnotations' =
                            [signatureAnnotations EXCEPT ![Grabbed] = AtPointer(@, e)]
                     /\ textAnnotations' = textAnnotations
       /\ HandleMouseUp => UNCHANGED storeVars
      ]_vars

(* C2.  Every text annotation is drawn at export with its stored font size.  *)
(* (Stated of the code, this fails: drawText is given the size 11.)          *)
C2_ExportDrawsStoredFontSize ==
    download # Null =>
        \A i \in 1 .. Len(textAnnotations) :
            Val(download).content[i].size = FontSizeOf(textAnnotations[i])

(* C3.  A signature saved after a click on the page is stored at the click   *)
(* position in document space: the click offset inside the page surface      *)
(* over the zoom.  (Stated of the code, this fails: the click stores the     *)
(* centre of the page.)                                                      *)
C3_SignatureStoredAtClick ==
    [][Len(signatureAnnotations') = Len(signatureAnnotations) + 1 =>
            /\ clickAt # Null
            /\ LET a == signatureAnnotations'[Len(signatureAnnotations')]
                   e == Val(clickAt)
               IN  /\ a.x = RDiv(RSub(Int2R(e.x), PageRect.left), scale)
                   /\ a.y = RDiv(RSub(Int2R(e.y), PageRect.top), scale)
      ]_vars

\* the text in the prompt is empty or whitespace only
BlankText == \A i \in 1 .. Len(newTextAnnotation) : newTextAnnotation[i] = " "

\* a pending placement is cancelled by one of the two Cancel buttons
ExplicitCancel == TextCancel \/ HandleSignatureCancel

\* the text prompt is submitted with blank text
BlankSubmit == BlankText /\ HandleTextSubmit

(* C4 as claimed.  Every cancellation (blank text submitted, Cancel in the   *)
(* text prompt, Cancel in the signature widget) discards the pending         *)
(* placement, leaves both collections unchanged and leaves Active Tool none. *)
C4_EveryCancellationResets ==
    [][(ExplicitCancel \/ BlankSubmit) =>
            /\ UNCHANGED storeVars
            /\ ~ModalOpen'
            /\ activeTool' = "none"
      ]_vars

(* C4 as amended.  Cancel in the text prompt or in the signature widget      *)
(* closes the prompt, leaves both collections unchanged and leaves Active    *)
(* Tool none.  Submitting blank text is rejected: both collections are       *)
(* unchanged, and the prompt stays open with its pending position and text,  *)
(* Active Tool still being text.                                             *)
C4_CancelResetsBlankSubmitIsRejected ==
    [][/\ ExplicitCancel =>
            /\ UNCHANGED storeVars
            /\ ~ModalOpen'
            /\ activeTool' = "none"
       /\ BlankSubmit =>
            /\ UNCHANGED storeVars
            /\ TextPromptOpen'
            /\ UNCHANGED <<activeTool, editingPosition, newTextAnnotation>>
      ]_vars

\* a placement was cancelled: the prompt is closed and its position is left behind
C4_Cancelled ==
    /\ editingPosition # Null
    /\ ~ModalOpen
    /\ activeTool = "none"
    /\ Len(textAnnotations) = 1

(* C5.  No object URL outlives the editor of its file: whenever a created    *)
(* URL is not yet revoked, its file is the one being edited.  (Stated of     *)
(* the code, this fails: the cleanup reads the pdfUrl of the first render,   *)
(* which is null, and a load that resolves after the unmount creates a URL   *)
(* nobody holds.)                                                            *)
C5_NoUrlOutlivesItsFile ==
    \A h \in created \ revoked : selectedFile = Some(h)

\* r = a * b, cross-multiplied
IsProduct(r, a, b) == r.n * a.d * b.d = r.d * a.n * b.n

\* annotation a is rendered at (a.x * scale, a.y * scale)
RenderedScaled(a) ==
    /\ IsProduct(ScreenPosition(a).left, a.x, scale)
    /\ IsProduct(ScreenPosition(a).top, a.y, scale)

(* C6.  Zoom invariance of stored position: a zoom step changes no stored    *)
(* position, size, page or content of any annotation, and after it every     *)
(* annotation is rendered at (x * zoom, y * zoom) for the new zoom; a click  *)
(* at screen (100, 200) at zoom 1.0 is rendered at (150, 300) at zoom 1.5.   *)
C6_ZoomKeepsStoreAndScalesRendering ==
    [][(ZoomIn \/ ZoomOut) =>
            /\ scale' # scale
            /\ UNCHANGED storeVars
            /\ \A i \in 1 .. Len(textAnnotations) :
                    RenderedScaled(textAnnotations[i])'
            /\ \A i \in 1 .. Len(signatureAnnotations) :
                    RenderedScaled(signatureAnnotations[i])'
            /\ ToScreenSpace(ToDocumentSpace(100 + PageInset, Int2R(PageInset),
                                             Int2R(1)), Rat(3, 2)) = Int2R(150)
            /\ ToScreenSpace(ToDocumentSpace(200 + PageInset, Int2R(PageInset),
                                             Int2R(1)), Rat(3, 2)) = Int2R(300)
      ]_vars

\* text placed at screen (100, 200) at zoom 1.0 is on display at zoom 1.5
C6_PlacedThenZoomed ==
    /\ scale = Rat(3, 2)
    /\ \E i \in 1 .. Len(textAnnotations) :
            /\ textAnnotations[i].pageNumber = pageNumber
            /\ textAnnotations[i].x = Int2R(100)
            /\ textAnnotations[i].y = Int2R(200)
            /\ ScreenPosition(textAnnotations[i]) =
                    [left |-> Int2R(150), top |-> Int2R(300)]

(* C7.  Export maps document space to PDF page space on the annotation's     *)
(* own page of natural height H: text stored at (x, y) is drawn at           *)
(* (x, H - y); a signature stored at (x, y) with height h is drawn at        *)
(* (x, H - y - h) with its stored width and height.  (50, 80) on H = 792     *)
(* gives (50, 712) for text and (50, 612) for a signature of height 100.     *)
C7_ExportMapsToPdfSpace ==
    /\ ToPdfSpaceText(Int2R(80), 792) = Int2R(712)
    /\ ToPdfSpaceImage(Int2R(80), Int2R(100), 792) = Int2R(612)
    /\ download # Null =>
        LET drawn == Val(download).content
            nText == Len(textAnnotations)
        IN  /\ Len(drawn) = nText + Len(signatureAnnotations)
            /\ \A i \in 1 .. nText :
                    LET a == textAnnotations[i]
                        H == Int2R(PageSize(a.pageNumber).height)
                    IN  /\ drawn[i].op = "drawText"
                        /\ drawn[i].page = a.pageNumber
                        /\ drawn[i].x = a.x
                        /\ RAdd(drawn[i].y, a.y) = H
            /\ \A j \in 1 .. Len(signatureAnnotations) :
                    LET a == signatureAnnotations[j]
                        d == drawn[nText + j]
                        H == Int2R(PageSize(a.pageNumber).height)
                    IN  /\ d.op = "drawImage"
                        /\ d.page = a.pageNumber
                        /\ d.x = a.x
                        /\ RAdd(RAdd(d.y, a.y), a.height) = H
                        /\ d.width = a.width
                        /\ d.height = a.height

\* an export of a text annotation and of a resized signature on the second page
C7_ExportedBothKinds ==
    /\ download # Null
    /\ Len(textAnnotations) > 0
    /\ \E j \in 1 .. Len(signatureAnnotations) :
            /\ signatureAnnotations[j].pageNumber = 2
            /\ signatureAnnotations[j].height # Int2R(SigHeight)

(* C8.  Size floors: in every reachable state every text annotation has a    *)
(* font size of at least 8 and every signature a width of at least 50 and a  *)
(* height of at least 25.                                                    *)
C8_SizeFloors ==
    /\ \A i \in 1 .. Len(textAnnotations) : textAnnotations[i].fontSize >= 8
    /\ \A j \in 1 .. Len(signatureAnnotations) :
            /\ RLe(Int2R(50), signatureAnnotations[j].width)
            /\ RLe(Int2R(25), signatureAnnotations[j].height)

\* both floors are reached: a text shrunk to 8 and a signature shrunk to 50 x 25
C8_AtTheFloors ==
    /\ \E i \in 1 .. Len(textAnnotations) : textAnnotations[i].fontSize = 8
    /\ \E j \in 1 .. Len(signatureAnnotations) :
            /\ signatureAnnotations[j].width = Int2R(50)
            /\ signatureAnnotations[j].height = Int2R(25)

\* a file that is not a PDF is dropped or picked
OfferOfNonPdf ==
    \E files \in FileLists :
        /\ Len(files) > 0
        /\ files[1] # "application/pdf"
        /\ HandleDrop(files) \/ HandleFileInputChange(files)

(* C9.  Upload rejection: offering a file whose MIME type is not             *)
(* application/pdf, by the picker or by a drop, shows the invalid-type       *)
(* notification; the selected file stays unset, no editor is mounted, no     *)
(* load is started, no editor state changes and the page renderer is not     *)
(* invoked.                                                                  *)
C9_NonPdfIsRejected ==
    [][OfferOfNonPdf =>
            /\ toast' = ToastInvalid
            /\ selectedFile = Null /\ selectedFile' = Null
            /\ ~EditorMounted'
            /\ ~RendererInvoked'
            /\ UNCHANGED <<uploads, urlVars, editorVars>>
      ]_vars

\* a rejection has just been notified
C9_Rejected ==
    /\ toast = ToastInvalid
    /\ selectedFile = Null
    /\ uploads > 0

\* an export in which some step throws
FailedExport ==
    /\ pdfBytes # Null
    /\ \E k \in 0 .. (MaxAnnotations + 1) : HandleDownload(Some(k))

(* C10.  Export failure is atomic: when loading, drawing or serializing      *)
(* throws at any step, no file is offered, the failure notification is       *)
(* shown, and the collections, the active tool, the page and the zoom are    *)
(* unchanged, the editor still holding the bytes for another attempt.        *)
C10_FailedExportIsAtomic ==
    [][FailedExport =>
            /\ download' = Null
            /\ toast' = ToastSaveError
            /\ UNCHANGED <<storeVars, activeTool, pageNumber, scale>>
            /\ EditorMounted' /\ pdfBytes' = pdfBytes
      ]_vars

\* an export of two annotations has just failed
C10_Failed ==
    /\ toast = ToastSaveError
    /\ download = Null
    /\ Len(textAnnotations) + Len(signatureAnnotations) = 2

----------------------------------------------------------------------------
\* the collection after is the collection before with one entry appended, the
\* entry tagged with the displayed page and the pending position
AppendedPending(before, after) ==
    /\ Len(after) = Len(before) + 1
    /\ SubSeq(after, 1, Len(before)) = before
    /\ after[Len(after)].pageNumber = pageNumber
    /\ editingPosition # Null
    /\ after[Len(after)].x = Val(editingPosition).x
    /\ after[Len(after)].y = Val(editingPosition).y

(* C11.  Committing a placement: submitting text that is not blank appends   *)
(* exactly one entry at the end of the text collection, and saving a         *)
(* signature from a surface that holds a stroke appends exactly one entry at *)
(* the end of the signature collection; the entry carries the displayed page *)
(* and the pending position, the existing entries and the other collection   *)
(* are unchanged and the active tool is none afterwards.  Saving from an     *)
(* empty surface commits nothing, and no step lengthens the signature        *)
(* collection while the surface is empty.                                    *)
C11_CommitAppendsOneEntry ==
    [][/\ (HandleTextSubmit /\ ~BlankText) =>
            /\ AppendedPending(textAnnotations, textAnnotations')
            /\ signatureAnnotations' = signatureAnnotations
            /\ activeTool' = "none"
       /\ (HandleSave /\ hasInk) =>
            /\ AppendedPending(signatureAnnotations, signatureAnnotations')
            /\ textAnnotations' = textAnnotations
            /\ activeTool' = "none"
       /\ (HandleSave /\ ~hasInk) => UNCHANGED storeVars
       /\ Len(signatureAnnotations') > Len(signatureAnnotations) => hasInk
      ]_vars

\* a signature was just committed after a text annotation had been
C11_CommittedBothKinds ==
    /\ event = "Save"
    /\ ~showSignatureCanvas
    /\ activeTool = "none"
    /\ Len(textAnnotations) = 1
    /\ Len(signatureAnnotations) = 1

----------------------------------------------------------------------------
\* the round trip has been made
TripBack == trip.stage = "back"

\* the double d is the integer n
IsInteger(d, n) == d = DoubleOf(n)

\* 10^-9
Tolerance == [n |-> 1, d |-> 10 ^ 9]

\* |d - n| <= Tolerance, for a double d = m * 2^e with e <= 0 and an integer n:
\* |m - n * 2^-e| * Tolerance.d <= Tolerance.n * 2^-e
WithinTolerance(d, n) ==
    LET target == Shl(NatOf(n), -d.e)
        off    == IF NatGe(d.m, target) THEN NatSub(d.m, target)
                  ELSE NatSub(target, d.m)
    IN  /\ d.e <= 0
        /\ NatGe(Shl(NatOf(Tolerance.n), -d.e), NatMul(off, NatOf(Tolerance.d)))

(* C12 as claimed.  Round trip: for any screen coordinate and any zoom       *)
(* factor of the supported range, converting to document space (dividing by  *)
(* the zoom) and back to screen space (multiplying by it) returns the        *)
(* coordinate.                                                               *)
C12_RoundTripReturnsTheCoordinate == TripBack => IsInteger(trip.v, trip.sx)

(* C12, amended.  Round trip: for any screen coordinate and any zoom factor  *)
(* of the supported range, converting to document space and back returns the *)
(* coordinate within the floating-point tolerance 10^-9, and not always the  *)
(* coordinate itself.                                                        *)
C12_RoundTripWithinTolerance == TripBack => WithinTolerance(trip.v, trip.sx)

\* a round trip was made that did not return the coordinate itself
C12_RoundTripInexact == TripBack /\ ~IsInteger(trip.v, trip.sx)

----------------------------------------------------------------------------
\* the collection after differs from the collection before at most in the
\* entry at place i, which is `entry`
OnlyChanged(before, after, i, entry) == after = [before EXCEPT ![i] = entry]

(* C13.  Resizing targets the annotation whose control was activated: for    *)
(* any contents of the collections, annotations on other pages included,     *)
(* pressing + or - on a displayed text annotation changes only that          *)
(* annotation's font size, by 1 and not below the floor, and pressing + or - *)
(* on a displayed signature changes only that signature's width and height;  *)
(* every other annotation and every position is unchanged.  (Stated of the   *)
(* code, this fails: the controls carry the index among the displayed page's *)
(* annotations and the update applies it to the whole collection.)           *)
C13_ResizeTargetsTheActivatedAnnotation ==
    [][\A index \in Indices :
        /\ FontSizeUp(index) =>
            LET i == FullIndex(textAnnotations, index)
                a == textAnnotations[i]
            IN  /\ OnlyChanged(textAnnotations, textAnnotations', i,
                               [a EXCEPT !.fontSize = a.fontSize + 1])
                /\ signatureAnnotations' = signatureAnnotations
        /\ FontSizeDown(index) =>
            LET i == FullIndex(textAnnotations, index)
                a == textAnnotations[i]
            IN  /\ OnlyChanged(textAnnotations, textAnnotations', i,
                               [a EXCEPT !.fontSize = Max(MinFontSize, a.fontSize - 1)])
                /\ signatureAnnotations' = signatureAnnotations
        /\ (SignatureGrow(index) \/ SignatureShrink(index)) =>
            LET i == FullIndex(signatureAnnotations, index)
                a == signatureAnnotations[i]
            IN  /\ Len(signatureAnnotations') = Len(signatureAnnotations)
                /\ OnlyChanged(signatureAnnotations, signatureAnnotations', i,
                               [a EXCEPT !.width  = signatureAnnotations'[i].width,
                                         !.height = signatureAnnotations'[i].height])
                /\ textAnnotations' = textAnnotations
      ]_vars

----------------------------------------------------------------------------
\* the document-space position a text click at pointer position e stores
ClickStores(e) ==
    [x |-> ToDocumentSpace(e.x, PageRect.left, scale),
     y |-> ToDocumentSpace(e.y, PageRect.top, scale)]

\* annotation a is rendered, inside the page surface, at pointer position e
RenderedAt(a, e) ==
    /\ RAdd(PageRect.left, ScreenPosition(a).left) = Int2R(e.x)
    /\ RAdd(PageRect.top, ScreenPosition(a).top) = Int2R(e.y)

\* every annotation of the collection that the step moved is stored where a
\* click at e would store it, and is rendered at e
MovedLikeAClick(before, after, e) ==
    \A i \in 1 .. Len(before) :
        after[i] # before[i] =>
            /\ after[i].x = ClickStores(e).x
            /\ after[i].y = ClickStores(e).y
            /\ RenderedAt(after[i], e)

(* C14.  Placement, drag and rendering share one origin: dragging an         *)
(* annotation to pointer position P stores the document-space position that  *)
(* placing a text annotation by a click at P stores at the same zoom, so the *)
(* dragged annotation is rendered at the pointer, whatever the offset of the *)
(* page surface inside the document container.  (Stated of the code, this    *)
(* fails: the click measures from the page surface, the drag from the        *)
(* document container.)                                                      *)
C14_DragStoresWhatAClickStores ==
    [][\A e \in MovePoints :
        HandleMouseMove(e) =>
            /\ MovedLikeAClick(textAnnotations, textAnnotations', e)
            /\ MovedLikeAClick(signatureAnnotations, signatureAnnotations', e)
      ]_vars

============================================================================
